---- MODULE Spec2Model ----
(***************************************************************************)
(* Scanner proxy: the lifecycle of the embedded proxy server               *)
(* (DesktopApp.start_server / stop_server / update_configuration, the      *)
(* serving threads running ScannerProxyApp.run_server) and the two request *)
(* handlers (get_images, proxy_content) of src/scanner_bridge.py.          *)
(*                                                                         *)
(* Text is a sequence of characters; a run of non-blank characters whose   *)
(* inner structure no operation looks at is kept as one element.           *)
(***************************************************************************)
EXTENDS Integers, Sequences, FiniteSets, TLC

\* ------------------------------------------------------------------ bounds
\* Serving threads alive at the same time (threading.Thread objects).
MaxThreads == 2
\* Longest upstream content body, in bytes.
MaxBody == 3
\* Most bytes of an upstream body that arrive in one network read.
UpChunk == 2

\* ------------------------------------------------------------------ text
Whitespace == {" "}

RECURSIVE LStrip(_)
LStrip(s) == IF s # <<>> /\ Head(s) \in Whitespace THEN LStrip(Tail(s)) ELSE s

RECURSIVE RStrip(_)
RStrip(s) ==
    IF s # <<>> /\ s[Len(s)] \in Whitespace THEN RStrip(SubSeq(s, 1, Len(s) - 1)) ELSE s

\* str.strip()
Strip(s) == RStrip(LStrip(s))

\* Characters str.isdigit() accepts: the ASCII digits and the other characters
\* of Unicode's digit classes (superscript two is one of them).
AsciiDigits == {"0", "1", "2", "3", "4", "5", "6", "7", "8", "9"}
DigitChars == AsciiDigits \cup {"²"}

\* str.isdigit(): non-empty and every character a digit character
IsDigit(s) == s # <<>> /\ \A i \in 1..Len(s) : s[i] \in DigitChars

\* Characters int() reads as decimal digits.
DigitVal(c) ==
    CASE c = "0" -> 0 [] c = "1" -> 1 [] c = "2" -> 2 [] c = "3" -> 3 [] c = "4" -> 4
      [] c = "5" -> 5 [] c = "6" -> 6 [] c = "7" -> 7 [] c = "8" -> 8 [] c = "9" -> 9

\* int(s) raises ValueError on a character that is no decimal digit
IntRaises(s) == s = <<>> \/ \E i \in 1..Len(s) : s[i] \notin AsciiDigits

RECURSIVE ToInt(_)
ToInt(s) == IF s = <<>> THEN 0 ELSE 10 * ToInt(SubSeq(s, 1, Len(s) - 1)) + DigitVal(s[Len(s)])

\* ------------------------------------------------------------------ state
VARIABLES
    scanner_url,     \* ScannerProxyApp.scanner_url
    frontend_url,    \* ScannerProxyApp.frontend_url
    host,            \* ScannerProxyApp.host
    port,            \* ScannerProxyApp.port
    app,             \* ScannerProxyApp.app: the FastAPI application object
    server_running,  \* ScannerProxyApp.server_running
    threads,         \* the live threads started by start_server, oldest first
    ctl,             \* where the control (GUI) thread is inside start_server
    external,        \* ports held by listeners of other processes
    req,             \* the request a serving loop is handling, if any
    reported,        \* what the last update_configuration call returned and printed
    ops              \* history: the last two lifecycle calls, newest last

config == <<scanner_url, frontend_url, host, port, app>>
lifecycle == <<server_running, threads, ctl>>
vars == <<scanner_url, frontend_url, host, port, app, server_running, threads, ctl,
          external, req, reported, ops>>

DefaultScannerUrl == <<"http://localhost:15000">>
DefaultFrontendUrl == <<"http://192.168.1.8:5173">>
DefaultHost == <<"0.0.0.0">>
DefaultPort == 8000

\* setup_fastapi: the application object; CORSMiddleware copies the allowed
\* origin when it is added, the route handlers read self.scanner_url when called.
SetupFastapi(origin) == [allow_origins |-> origin]

\* What an application's handlers use as backend base URL when a request arrives.
HandlerBackend(a) == scanner_url

\* No request admitted.
NoRequest ==
    [kind |-> "none", pc |-> "idle", app |-> SetupFastapi(<<>>), url |-> <<>>,
     outcome |-> "none", upstream |-> [status |-> 0, content_type |-> <<>>, body |-> <<>>],
     content |-> <<>>, result |-> [tag |-> "none"], content_type |-> <<>>, sent |-> <<>>,
     backend_at_return |-> <<>>, headers |-> <<>>, upstream_headers |-> <<>>,
     stop_called |-> FALSE]

\* update_configuration returned None and printed nothing.
Silent == [returned |-> "None", printed |-> <<>>]

Init ==
    /\ req = NoRequest
    /\ reported = Silent
    /\ scanner_url = DefaultScannerUrl
    /\ frontend_url = DefaultFrontendUrl
    /\ host = DefaultHost
    /\ port = DefaultPort
    /\ app = SetupFastapi(DefaultFrontendUrl)
    /\ server_running = FALSE
    /\ threads = <<>>
    /\ ctl = "idle"
    /\ external \in {{}, {DefaultPort}}
    /\ ops = <<"none", "none">>

\* ------------------------------------------------------------------ listeners
WildcardHost == <<"0.0.0.0">>

\* Two listening sockets cannot coexist on one port when their addresses
\* overlap (the wildcard address overlaps every address).
Conflict(h1, p1, h2, p2) == p1 = p2 /\ (h1 = h2 \/ h1 = WildcardHost \/ h2 = WildcardHost)

Serving(i) == threads[i].pc = "serving"

\* The bind inside uvicorn.run succeeds when no listener holds the address.
CanBind(h, p) ==
    /\ p \notin external
    /\ \A i \in 1..Len(threads) : Serving(i) => ~Conflict(h, p, threads[i].host, threads[i].port)

RemoveAt(s, i) == SubSeq(s, 1, i - 1) \o SubSeq(s, i + 1, Len(s))

\* ------------------------------------------------------------------ configuration
\* update_configuration's two validation tests, on the stripped entries
FieldMissing(s, f, h, p) == s = <<>> \/ f = <<>> \/ h = <<>> \/ p = <<>>

\* A range test that lets 65536 through.
PortInRangeOffByOne(n) == 1 <= n /\ n <= 65536

PortInRange(n) == 1 <= n /\ n <= 65535

\* ScannerProxyApp.update_config
UpdateConfig(s, f, h, p) ==
    /\ scanner_url' = s
    /\ frontend_url' = f
    /\ host' = h
    /\ port' = ToInt(p)
    /\ app' = SetupFastapi(f)

\* DesktopApp.update_configuration on the four entry texts
UpdateConfiguration(se, fe, he, pe) ==
    LET s == Strip(se)
        f == Strip(fe)
        h == Strip(he)
        p == Strip(pe)
    IN  /\ ctl = "idle"
        /\ IF FieldMissing(s, f, h, p)
             THEN UNCHANGED config /\ reported' = Silent                 \* return
             ELSE IF ~IsDigit(p)
             THEN UNCHANGED config /\ reported' = Silent                 \* return
             ELSE IF IntRaises(p)
             THEN /\ UNCHANGED config               \* ValueError, caught and printed
                  /\ reported' = [returned |-> "None",
                                  printed |-> <<"Failed to update configuration: ", "ValueError">>]
             ELSE IF ~PortInRange(ToInt(p))
             THEN UNCHANGED config /\ reported' = Silent                 \* return
             ELSE UpdateConfig(s, f, h, p) /\ reported' = Silent
        /\ UNCHANGED <<lifecycle, external>>

\* ------------------------------------------------------------------ lifecycle
\* start_server without its test of server_running.
StartServerUnguarded ==
    /\ ctl = "idle"
    /\ Len(threads) < MaxThreads
    /\ threads' = Append(threads, [pc |-> "started"])
    /\ ctl' = "start_spawned"
    /\ UNCHANGED <<server_running, config, external>>

\* DesktopApp.start_server up to and including Thread.start()
StartServer ==
    /\ ctl = "idle"
    /\ IF server_running
         THEN UNCHANGED lifecycle                       \* return
         ELSE /\ Len(threads) < MaxThreads
              /\ threads' = Append(threads, [pc |-> "started"])
              /\ ctl' = "start_spawned"
              /\ UNCHANGED server_running
    /\ UNCHANGED <<config, external>>

\* DesktopApp.start_server after Thread.start(): self.proxy_app.server_running = True
StartServerSetFlag ==
    /\ ctl = "start_spawned"
    /\ server_running' = TRUE
    /\ ctl' = "idle"
    /\ UNCHANGED <<config, threads, external>>

\* stop_server as it would be if it also shut the serving loops down.
StopServerShutsDown ==
    /\ ctl = "idle"
    /\ IF ~server_running
         THEN UNCHANGED <<server_running, threads>>
         ELSE server_running' = FALSE /\ threads' = <<>>
    /\ UNCHANGED <<config, ctl, external>>

\* DesktopApp.stop_server
StopServer ==
    /\ ctl = "idle"
    /\ IF ~server_running
         THEN UNCHANGED server_running                  \* return
         ELSE server_running' = FALSE
    /\ UNCHANGED <<config, threads, ctl, external>>

\* The serving thread enters run_server: uvicorn.run reads self.app, self.host
\* and self.port and binds; on a failed bind uvicorn leaves with SystemExit,
\* which neither except clause catches.
RunServer(i) ==
    /\ threads[i].pc = "started"
    /\ IF CanBind(host, port)
         THEN threads' = [threads EXCEPT ![i] =
                 [pc |-> "serving", app |-> app, host |-> host, port |-> port,
                  cfg |-> [scanner_url |-> scanner_url, frontend_url |-> frontend_url,
                           host |-> host, port |-> port]]]
         ELSE threads' = [threads EXCEPT ![i] = [pc |-> "failed"]]
    /\ UNCHANGED <<config, server_running, ctl, external>>

\* run_server_thread's finally block, then the thread ends
Finally(i) ==
    /\ threads[i].pc = "failed"
    /\ server_running' = FALSE
    /\ threads' = RemoveAt(threads, i)
    /\ UNCHANGED <<config, ctl, external>>

\* ------------------------------------------------------------------ entry texts
Form(s, f, h, p) == [scanner |-> s, frontend |-> f, host |-> h, port |-> p]

OtherScannerUrl == <<"http://10.0.0.5:15000">>
OtherFrontendUrl == <<"http://localhost:3000">>
OtherHost == <<"127.0.0.1">>

\* What the operator may have typed into the four entries when pressing Update.
Forms ==
    { Form(<<" ">> \o OtherScannerUrl, OtherFrontendUrl \o <<" ">>, OtherHost,
           <<" ", "9", "0", "0", "0", " ">>),
      Form(OtherScannerUrl, DefaultFrontendUrl, DefaultHost, <<"8", "0", "0", "0">>),
      Form(DefaultScannerUrl, DefaultFrontendUrl, DefaultHost, <<"6", "5", "5", "3", "5">>),
      Form(<<>>, OtherFrontendUrl, OtherHost, <<"9", "0", "0", "0">>),
      Form(OtherScannerUrl, <<" ">>, OtherHost, <<"9", "0", "0", "0">>),
      Form(OtherScannerUrl, OtherFrontendUrl, <<" ", " ">>, <<"9", "0", "0", "0">>),
      Form(OtherScannerUrl, OtherFrontendUrl, OtherHost, <<>>),
      Form(OtherScannerUrl, OtherFrontendUrl, OtherHost, <<"0">>),
      Form(OtherScannerUrl, OtherFrontendUrl, OtherHost, <<"6", "5", "5", "3", "6">>),
      Form(OtherScannerUrl, OtherFrontendUrl, OtherHost, <<"7", "0", "0", "0", "0">>),
      Form(OtherScannerUrl, OtherFrontendUrl, OtherHost, <<"8", "0", "a">>),
      Form(OtherScannerUrl, OtherFrontendUrl, OtherHost, <<"-", "1">>),
      Form(OtherScannerUrl, OtherFrontendUrl, OtherHost, <<"9", " ", "0">>),
      Form(OtherScannerUrl, OtherFrontendUrl, OtherHost, <<"²">>) }

\* ------------------------------------------------------------------ history
\* A field with nothing but blanks in it is empty.
Blank(s) == \A i \in 1..Len(s) : s[i] \in Whitespace

\* A decimal numeral, blanks around it allowed, and its value.
IsNumeral(s) == Strip(s) # <<>> /\ \A i \in 1..Len(Strip(s)) : Strip(s)[i] \in AsciiDigits

\* The proposed configuration fails validation: a field empty, or the port
\* non-numeric or outside 1..65535.
FormInvalid(f) ==
    \/ Blank(f.scanner) \/ Blank(f.frontend) \/ Blank(f.host) \/ Blank(f.port)
    \/ ~IsNumeral(f.port)
    \/ ToInt(Strip(f.port)) < 1
    \/ ToInt(Strip(f.port)) > 65535

\* A lifecycle call is recorded as it is made, with the state it was made in.
Called(op) == ops' = <<ops[2], op>>

StartLabel == IF server_running THEN "start_when_running" ELSE "start_when_stopped"
StopLabel == IF server_running THEN "stop_when_running" ELSE "stop_when_stopped"
UpdateLabel(f) == IF FormInvalid(f) THEN "update_invalid" ELSE "update_valid"

\* ------------------------------------------------------------------ specification
Next ==
    \/ StartServer /\ Called(StartLabel) /\ UNCHANGED <<req, reported>>
    \/ StartServerSetFlag /\ UNCHANGED <<ops, req, reported>>
    \/ StopServer /\ Called(StopLabel) /\ UNCHANGED <<req, reported>>
    \/ \E f \in Forms :
          /\ UpdateConfiguration(f.scanner, f.frontend, f.host, f.port)
          /\ Called(UpdateLabel(f))
          /\ UNCHANGED req
    \/ \E i \in 1..Len(threads) : RunServer(i) /\ UNCHANGED <<ops, req, reported>>
    \/ \E i \in 1..Len(threads) : Finally(i) /\ UNCHANGED <<ops, req, reported>>

Spec == Init /\ [][Next]_vars

\* ------------------------------------------------------------------ lifecycle claims
\* No thread is between its start and its bind, or between a failed bind and
\* its finally block, and the control thread is outside start_server.
Settled ==
    /\ ctl = "idle"
    /\ \A i \in 1..Len(threads) : Serving(i)

ListenerOn(h, p) == \E i \in 1..Len(threads) : Serving(i) /\ threads[i].host = h /\ threads[i].port = p

\* C1: a stop-then-start cycle from a running server, on a port no other
\* process holds, ends with server_running True and a listener on the port.
C1_RestartEndsRunning ==
    (/\ ops = <<"stop_when_running", "start_when_stopped">>
     /\ Settled
     /\ port \notin external)
        => (server_running /\ ListenerOn(host, port))

\* C2: once a stop request made on a running server has completed and the
\* state is stopped, no serving loop of this process is still listening.
C2_StoppedMeansReleased ==
    (ops[2] = "stop_when_running" /\ ~server_running)
        => \A i \in 1..Len(threads) : ~Serving(i)

\* C3: start_server called while server_running is True, and stop_server
\* called while it is False, create no thread and change no state.
C3_MatchingRequestIsNoOp ==
    [][(ops' # ops /\ ops'[2] \in {"start_when_running", "stop_when_stopped"})
          => UNCHANGED <<config, lifecycle>>]_vars

C3_Witness == ops = <<"start_when_running", "stop_when_stopped">> /\ Len(threads) = 1

\* C4: applying a configuration that fails validation leaves the four
\* configuration fields, the application and the lifecycle state as they were.
C4_InvalidConfigurationChangesNothing ==
    [][(ops' # ops /\ ops'[2] = "update_invalid") => UNCHANGED <<config, lifecycle>>]_vars

C4_Witness ==
    /\ ops[2] = "update_invalid"
    /\ server_running
    /\ \E i \in 1..Len(threads) : Serving(i)

\* C5: once a valid configuration has been applied and nothing is left to
\* run, a listener serves under the new configuration and none under an old one.
C5_ValidUpdateRestarts ==
    (ops[2] = "update_valid" /\ Settled /\ port \notin external)
        => /\ \E i \in 1..Len(threads) : Serving(i)
           /\ \A i \in 1..Len(threads) :
                 Serving(i) =>
                    /\ threads[i].host = host
                    /\ threads[i].port = port
                    /\ threads[i].app.allow_origins = frontend_url
                    /\ HandlerBackend(threads[i].app) = scanner_url

\* C6: a serving loop forwards to the backend URL, applies the allowed
\* origin and listens on the host and port of the configuration that was
\* active when it started.
C6_BoundToOneSnapshot ==
    \A i \in 1..Len(threads) :
        Serving(i) =>
            /\ HandlerBackend(threads[i].app) = threads[i].cfg.scanner_url
            /\ threads[i].app.allow_origins = threads[i].cfg.frontend_url
            /\ threads[i].host = threads[i].cfg.host
            /\ threads[i].port = threads[i].cfg.port

\* ------------------------------------------------------------------ exceptions
\* The base class of each exception the handlers can meet (httpx, json, builtins).
BaseOf(e) ==
    CASE e \in {"ReadTimeout", "ConnectTimeout", "WriteTimeout", "PoolTimeout"} -> "TimeoutException"
      [] e \in {"ConnectError", "ReadError"} -> "NetworkError"
      [] e \in {"TimeoutException", "NetworkError"} -> "TransportError"
      [] e = "TransportError" -> "RequestError"
      [] e \in {"RequestError", "HTTPStatusError"} -> "HTTPError"
      [] e = "JSONDecodeError" -> "ValueError"
      [] e \in {"HTTPError", "ValueError"} -> "Exception"
      [] e = "Exception" -> "BaseException"
      [] OTHER -> "object"

\* isinstance(e, cls), which is what an except clause tests
RECURSIVE IsInstance(_, _)
IsInstance(e, cls) ==
    IF e = cls THEN TRUE
    ELSE IF e \in {"BaseException", "object"} THEN FALSE
    ELSE IsInstance(BaseOf(e), cls)

\* ------------------------------------------------------------------ JSON
RECURSIVE NoBlanks(_)
NoBlanks(s) ==
    IF s = <<>> THEN <<>>
    ELSE IF Head(s) \in Whitespace THEN NoBlanks(Tail(s))
    ELSE <<Head(s)>> \o NoBlanks(Tail(s))

JsonScalars == {"null", "1", "\"img.png\""}
JsonKeys == {"\"id\"", "\"n\""}

\* The JSON texts of the model: a scalar, an array of scalars, or an object
\* whose members are scalars.
IsJson(s) ==
    LET k == NoBlanks(s)
        n == Len(k)
    IN  \/ n = 1 /\ k[1] \in JsonScalars
        \/ /\ n >= 2
           /\ k[1] = "["
           /\ k[n] = "]"
           /\ n = 2 \/ n % 2 = 1
           /\ \A i \in 2..(n - 1) : IF i % 2 = 0 THEN k[i] \in JsonScalars ELSE k[i] = ","
        \/ /\ n >= 2
           /\ k[1] = "{"
           /\ k[n] = "}"
           /\ n = 2 \/ n % 4 = 1
           /\ \A i \in 2..(n - 1) :
                 CASE i % 4 = 2 -> k[i] \in JsonKeys
                   [] i % 4 = 3 -> k[i] = ":"
                   [] i % 4 = 0 -> k[i] \in JsonScalars
                   [] OTHER -> k[i] = ","

\* The members of an object text without blanks, as <<key, value>> pairs.
Members(k) == [j \in 1..((Len(k) - 1) \div 4) |-> <<k[4 * j - 2], k[4 * j]>>]

\* d[key] = value on a dict kept as a sequence of pairs: a key that is there
\* keeps its place and takes the new value.
DictPut(d, kv) ==
    IF \E j \in 1..Len(d) : d[j][1] = kv[1]
    THEN [j \in 1..Len(d) |-> IF d[j][1] = kv[1] THEN kv ELSE d[j]]
    ELSE Append(d, kv)

RECURSIVE DictOf(_)
DictOf(ms) == IF ms = <<>> THEN <<>> ELSE DictPut(DictOf(SubSeq(ms, 1, Len(ms) - 1)), ms[Len(ms)])

RECURSIVE MemberTokens(_)
MemberTokens(d) ==
    IF d = <<>> THEN <<>>
    ELSE IF Len(d) = 1 THEN <<d[1][1], ":", d[1][2]>>
    ELSE <<d[1][1], ":", d[1][2], ",">> \o MemberTokens(Tail(d))

\* response.text handed on as it came.
ParseJsonKeepsText(s) == s

\* response.json(): the value of a JSON text, written without insignificant
\* blanks; an object is a dict, so a repeated key keeps its last value.
ParseJson(s) ==
    LET k == NoBlanks(s)
    IN  IF k # <<>> /\ k[1] = "{"
        THEN <<"{">> \o MemberTokens(DictOf(Members(k))) \o <<"}">>
        ELSE k

\* ------------------------------------------------------------------ POST /get_images
\* response.raise_for_status() passes on 2xx only
IsSuccess(status) == 200 <= status /\ status <= 299

\* The exception the try block of get_images ends with ("None": it returns).
\* o is what client.post met: an exception, or a response.
GetImagesRaised(o) ==
    IF o.exc # "None" THEN o.exc
    ELSE IF ~IsSuccess(o.status) THEN "HTTPStatusError"
    ELSE IF ~IsJson(o.body) THEN "JSONDecodeError"
    ELSE "None"

TimedOutMessage == <<"Scanner service timed out. Make sure it is running on ">> \o scanner_url
FailedMessage(e) == <<"Failed to reach scanner: ", e>>

\* get_images with its timeout clause alone.
GetImagesExceptTimeoutOnly(e) ==
    IF IsInstance(e, "ReadTimeout") THEN [tag |-> "error", message |-> TimedOutMessage]
    ELSE [tag |-> "raised", exc |-> e]

\* The except clauses of get_images, in order
GetImagesExcept(e) ==
    IF IsInstance(e, "ReadTimeout") THEN [tag |-> "error", message |-> TimedOutMessage]
    ELSE IF IsInstance(e, "Exception") THEN [tag |-> "error", message |-> FailedMessage(e)]
    ELSE [tag |-> "raised", exc |-> e]

\* What get_images gives the HTTP layer
GetImagesResult(o) ==
    IF GetImagesRaised(o) = "None"
    THEN [tag |-> "json", value |-> ParseJson(o.body)]
    ELSE GetImagesExcept(GetImagesRaised(o))

\* What client.post can meet.
TransportErrors ==
    {"ConnectError", "ConnectTimeout", "WriteTimeout", "ReadTimeout", "PoolTimeout", "ReadError"}

Statuses == {200, 201, 302, 404, 500}

\* The payloads a backend answers with, as values.
Payloads ==
    { <<"null">>, <<"[", "]">>, <<"[", "1", ",", "\"img.png\"", "]">>,
      <<"{", "\"id\"", ":", "1", ",", "\"n\"", ":", "\"img.png\"", "}">> }

\* json.dumps with its default separators: a blank after each "," and ":".
RECURSIVE Dumps(_)
Dumps(v) ==
    IF v = <<>> THEN <<>>
    ELSE IF Head(v) \in {",", ":"} THEN <<Head(v), " ">> \o Dumps(Tail(v))
    ELSE <<Head(v)>> \o Dumps(Tail(v))

\* The texts a backend may write a payload as.
Renderings(v) == {v, Dumps(v)}

JsonBodies ==
    UNION {Renderings(v) : v \in Payloads}
        \cup { <<" ", "1">>,
               <<"{", "\"id\"", ":", "1", ",", "\"n\"", ":", "null", ",", "\"id\"", ":", "null", "}">> }

OtherBodies == { <<>>, <<"<html>">>, <<"[", "1">> }

PostOutcomes ==
    [exc : TransportErrors, status : {0}, body : {<<>>}]
        \cup [exc : {"None"}, status : Statuses, body : JsonBodies \cup OtherBodies]

\* Header lists are sequences of <<name, value>> pairs.
HasHeader(hs, name) == \E j \in 1..Len(hs) : hs[j][1] = name

\* dict(request.headers): one entry per name, at the place of its first
\* occurrence and with the value of its first occurrence (Headers.keys lists
\* every occurrence, Headers.__getitem__ returns the first match).
RECURSIVE HeaderDict(_)
HeaderDict(hs) ==
    IF hs = <<>> THEN <<>>
    ELSE LET front == HeaderDict(SubSeq(hs, 1, Len(hs) - 1))
             last == hs[Len(hs)]
         IN  IF HasHeader(front, last[1]) THEN front ELSE Append(front, last)

\* The headers httpx.AsyncClient carries by default.
ClientHeaders ==
    << <<"accept", "*/*">>, <<"accept-encoding", "gzip, deflate">>,
       <<"connection", "keep-alive">>, <<"user-agent", "python-httpx">> >>

RECURSIVE WithoutNames(_, _)
WithoutNames(hs, d) ==
    IF hs = <<>> THEN <<>>
    ELSE IF HasHeader(d, Head(hs)[1]) THEN WithoutNames(Tail(hs), d)
    ELSE <<Head(hs)>> \o WithoutNames(Tail(hs), d)

\* client.post(..., headers=d): the client's default headers that d does not
\* name, followed by d.
PostHeaders(d) == WithoutNames(ClientHeaders, d) \o d

\* Header lists a request arrives with.
HeaderLists ==
    { << <<"host", "proxy:8000">>, <<"user-agent", "browser">>, <<"accept", "*/*">>,
         <<"accept-encoding", "gzip">>, <<"connection", "close">> >>,
      << <<"host", "proxy:8000">>, <<"accept", "*/*">>, <<"accept-encoding", "gzip">>,
         <<"connection", "close">>, <<"user-agent", "browser">>,
         <<"x-tag", "a">>, <<"x-tag", "b">> >> }

\* The event loop of the serving thread that admitted the request is running
\* its handler.
HandlerRuns == \E i \in 1..Len(threads) : Serving(i) /\ threads[i].app = req.app

\* A serving loop admits POST /get_images: the handler reads the body and the
\* headers and calls client.post on scanner_url + "/get_images".
GetImagesBegin(i, hs) ==
    /\ req.pc = "idle"
    /\ Serving(i)
    /\ req' = [req EXCEPT !.kind = "get_images", !.pc = "awaiting", !.app = threads[i].app,
                           !.url = HandlerBackend(threads[i].app) \o <<"/get_images">>,
                           !.headers = hs, !.upstream_headers = PostHeaders(HeaderDict(hs))]
    /\ UNCHANGED <<config, lifecycle, external>>

\* client.post ends and the handler returns (or raises).
GetImagesEnd(o) ==
    /\ HandlerRuns
    /\ req.kind = "get_images"
    /\ req.pc = "awaiting"
    /\ req' = [req EXCEPT !.pc = "done", !.outcome = o.exc, !.upstream.status = o.status,
                           !.upstream.body = o.body, !.result = GetImagesResult(o),
                           !.backend_at_return = scanner_url]
    /\ UNCHANGED <<config, lifecycle, external>>

\* ------------------------------------------------------------------ GET /content/{path}
Min(a, b) == IF a < b THEN a ELSE b
Max(a, b) == IF a < b THEN b ELSE a

RECURSIVE Slices(_, _)
Slices(content, n) ==
    IF content = <<>> THEN <<>>
    ELSE <<SubSeq(content, 1, Min(n, Len(content)))>>
            \o Slices(SubSeq(content, Min(n, Len(content)) + 1, Len(content)), n)

\* An iterator over a body read from a client that has been closed since.
AiterBytesClosed(content) == <<>>

\* resp.aiter_bytes() on the response client.get returned: the body is in
\* memory already, and with no chunk_size it is cut at len(content).
AiterBytes(content) == Slices(content, Max(Len(content), 1))

\* No content-type header (resp.headers.get gives None).
NoContentType == <<>>

\* StreamingResponse(media_type=...): the content-type header of the response;
\* a text/ type that names no charset gets the default charset appended.
InitHeaders(media_type) ==
    IF media_type = NoContentType THEN NoContentType
    ELSE IF media_type[1] = "text/" /\ \A i \in 1..Len(media_type) : media_type[i] # "; charset="
    THEN media_type \o <<"; charset=", "utf-8">>
    ELSE media_type

FetchFailedMessage(e) == <<"Failed to fetch image from scanner: ", e>>

\* The except clause of proxy_content
ContentExcept(e) ==
    IF IsInstance(e, "Exception") THEN [tag |-> "error", message |-> FetchFailedMessage(e)]
    ELSE [tag |-> "raised", exc |-> e]

Bytes == {0, 255}

RECURSIVE BodiesOfLen(_)
BodiesOfLen(n) ==
    IF n = 0 THEN {<<>>} ELSE {<<b>> \o s : b \in Bytes, s \in BodiesOfLen(n - 1)}

Bodies == UNION {BodiesOfLen(n) : n \in 0..MaxBody}

ContentTypes ==
    { NoContentType, <<"image/jpeg">>, <<"text/", "plain">>,
      <<"text/", "html", "; charset=", "iso-8859-1">> }

ContentStatuses == {200, 206, 404}

Paths == {<<"scan/1.jpg">>}

\* A serving loop admits GET /content/{path}: the handler builds the URL from
\* self.scanner_url and calls client.get.
ContentBegin(i, path) ==
    /\ req.pc = "idle"
    /\ Serving(i)
    /\ req' = [req EXCEPT !.kind = "content", !.pc = "awaiting", !.app = threads[i].app,
                           !.url = HandlerBackend(threads[i].app) \o <<"/content/">> \o path]
    /\ UNCHANGED <<config, lifecycle, external>>

\* client.get fails before any response header arrives.
ContentGetFails(e) ==
    /\ HandlerRuns
    /\ req.kind = "content"
    /\ req.pc = "awaiting"
    /\ req' = [req EXCEPT !.pc = "done", !.outcome = e, !.result = ContentExcept(e),
                           !.content_type = <<"application/json">>,
                           !.backend_at_return = scanner_url]
    /\ UNCHANGED <<config, lifecycle, external>>

\* The upstream response headers arrive; client.get goes on to read the body.
ContentHeaders(status, ctype, body) ==
    /\ HandlerRuns
    /\ req.kind = "content"
    /\ req.pc = "awaiting"
    /\ req' = [req EXCEPT !.pc = "reading",
                           !.upstream = [status |-> status, content_type |-> ctype, body |-> body]]
    /\ UNCHANGED <<config, lifecycle, external>>

\* client.get reads the next k bytes of the upstream body into memory.
ContentRead(k) ==
    /\ HandlerRuns
    /\ req.kind = "content"
    /\ req.pc = "reading"
    /\ Len(req.content) + k <= Len(req.upstream.body)
    /\ req' = [req EXCEPT !.content =
                  @ \o SubSeq(req.upstream.body, Len(@) + 1, Len(@) + k)]
    /\ UNCHANGED <<config, lifecycle, external>>

\* The upstream connection fails while client.get is still reading the body.
ContentReadFails(e) ==
    /\ HandlerRuns
    /\ req.kind = "content"
    /\ req.pc = "reading"
    /\ Len(req.content) < Len(req.upstream.body)
    /\ req' = [req EXCEPT !.pc = "done", !.outcome = e, !.result = ContentExcept(e),
                           !.content_type = <<"application/json">>,
                           !.backend_at_return = scanner_url]
    /\ UNCHANGED <<config, lifecycle, external>>

\* client.get returns with the whole body; raise_for_status, then the handler
\* returns the StreamingResponse and the async with block closes the client.
ContentReturn ==
    /\ HandlerRuns
    /\ req.kind = "content"
    /\ req.pc = "reading"
    /\ Len(req.content) = Len(req.upstream.body)
    /\ IF IsSuccess(req.upstream.status)
         THEN req' = [req EXCEPT !.pc = "streaming", !.outcome = "None",
                         !.result = [tag |-> "stream", chunks |-> AiterBytes(req.content)],
                         !.content_type = InitHeaders(req.upstream.content_type),
                         !.backend_at_return = scanner_url]
         ELSE req' = [req EXCEPT !.pc = "done", !.outcome = "HTTPStatusError",
                         !.result = ContentExcept("HTTPStatusError"),
                         !.content_type = <<"application/json">>,
                         !.backend_at_return = scanner_url]
    /\ UNCHANGED <<config, lifecycle, external>>

\* The HTTP layer takes the next chunk from the iterator and sends it.
ContentSend ==
    /\ HandlerRuns
    /\ req.pc = "streaming"
    /\ req.result.chunks # <<>>
    /\ req' = [req EXCEPT !.sent = Append(@, Head(req.result.chunks)),
                           !.result.chunks = Tail(@)]
    /\ UNCHANGED <<config, lifecycle, external>>

\* The iterator is exhausted: the response is complete.
ContentEnd ==
    /\ HandlerRuns
    /\ req.pc = "streaming"
    /\ req.result.chunks = <<>>
    /\ req' = [req EXCEPT !.pc = "done"]
    /\ UNCHANGED <<config, lifecycle, external>>

\* ------------------------------------------------------------------ requests
\* The server has been started with the default configuration and its thread
\* is serving (what DesktopApp.__init__ leaves once uvicorn has bound).
InitReq ==
    /\ req = NoRequest
    /\ reported = Silent
    /\ scanner_url = DefaultScannerUrl
    /\ frontend_url = DefaultFrontendUrl
    /\ host = DefaultHost
    /\ port = DefaultPort
    /\ app = SetupFastapi(DefaultFrontendUrl)
    /\ server_running = TRUE
    /\ threads = << [pc |-> "serving", app |-> SetupFastapi(DefaultFrontendUrl),
                     host |-> DefaultHost, port |-> DefaultPort,
                     cfg |-> [scanner_url |-> DefaultScannerUrl,
                              frontend_url |-> DefaultFrontendUrl,
                              host |-> DefaultHost, port |-> DefaultPort]] >>
    /\ ctl = "idle"
    /\ external = {}
    /\ ops = <<"none", "start_when_stopped">>

\* A request has been admitted and its response is not complete.
InFlight == req.pc \notin {"idle", "done"}

\* The handler of the request in flight takes its next step.
HandlerStep ==
    \/ \E o \in PostOutcomes : GetImagesEnd(o)
    \/ \E e \in TransportErrors : ContentGetFails(e)
    \/ \E status \in ContentStatuses, ctype \in ContentTypes, body \in Bodies :
          ContentHeaders(status, ctype, body)
    \/ \E k \in 1..UpChunk : ContentRead(k)
    \/ \E e \in {"ReadError", "ReadTimeout"} : ContentReadFails(e)
    \/ ContentReturn
    \/ ContentSend
    \/ ContentEnd

NextReq ==
    \/ \E i \in 1..Len(threads), hs \in HeaderLists :
          GetImagesBegin(i, hs) /\ UNCHANGED <<ops, reported>>
    \/ \E o \in PostOutcomes : GetImagesEnd(o) /\ UNCHANGED <<ops, reported>>
    \/ \E i \in 1..Len(threads), path \in Paths : ContentBegin(i, path) /\ UNCHANGED <<ops, reported>>
    \/ \E e \in TransportErrors : ContentGetFails(e) /\ UNCHANGED <<ops, reported>>
    \/ \E status \in ContentStatuses, ctype \in ContentTypes, body \in Bodies :
          ContentHeaders(status, ctype, body) /\ UNCHANGED <<ops, reported>>
    \/ \E k \in 1..UpChunk : ContentRead(k) /\ UNCHANGED <<ops, reported>>
    \/ \E e \in {"ReadError", "ReadTimeout"} : ContentReadFails(e) /\ UNCHANGED <<ops, reported>>
    \/ ContentReturn /\ UNCHANGED <<ops, reported>>
    \/ ContentSend /\ UNCHANGED <<ops, reported>>
    \/ ContentEnd /\ UNCHANGED <<ops, reported>>
    \/ \E f \in Forms :
          UpdateConfiguration(f.scanner, f.frontend, f.host, f.port) /\ UNCHANGED <<ops, req>>

SpecReq == InitReq /\ [][NextReq]_vars

\* Requests while the control thread calls stop_server; the request records
\* whether stop_server was called while it was in flight.
NextStop ==
    \/ \E i \in 1..Len(threads), hs \in HeaderLists :
          GetImagesBegin(i, hs) /\ UNCHANGED <<ops, reported>>
    \/ \E i \in 1..Len(threads), path \in Paths : ContentBegin(i, path) /\ UNCHANGED <<ops, reported>>
    \/ HandlerStep /\ UNCHANGED <<ops, reported>>
    \/ /\ StopServer
       /\ req' = [req EXCEPT !.stop_called = @ \/ InFlight]
       /\ UNCHANGED <<ops, reported>>

SpecStop == InitReq /\ [][NextStop]_vars

\* The state requests start from is one the lifecycle reaches.
ServingByDefault ==
    /\ server_running
    /\ Len(threads) = 1
    /\ Serving(1)
    /\ threads[1].cfg.scanner_url = DefaultScannerUrl

\* ------------------------------------------------------------------ request claims
GetImagesDone == req.kind = "get_images" /\ req.pc = "done"

\* C7: whatever client.post met (a 2xx JSON body, a 2xx body that is no
\* JSON, another status, a connection failure, a timeout), get_images returns
\* the upstream JSON value or an error payload; it raises nothing.
C7_GetImagesNeverRaises ==
    GetImagesDone =>
        /\ req.result.tag \in {"json", "error"}
        /\ req.result.tag = "json" <=>
              (req.outcome = "None" /\ IsSuccess(req.upstream.status) /\ IsJson(req.upstream.body))
        /\ req.result.tag = "error" => req.result.message # <<>>

C7_Witness ==
    /\ GetImagesDone
    /\ req.outcome = "None"
    /\ req.upstream.status = 200
    /\ ~IsJson(req.upstream.body)
    /\ req.result.tag = "error"

\* C8: a timeout of the upstream call, while connecting, writing or waiting
\* for the response, resolves as the timed-out error naming the configured
\* backend URL.
C8_TimeoutsAreTagged ==
    (GetImagesDone /\ req.outcome \in {"ConnectTimeout", "WriteTimeout", "ReadTimeout"})
        => /\ req.result.tag = "error"
           /\ req.result.message =
                <<"Scanner service timed out. Make sure it is running on ">>
                    \o req.backend_at_return

\* A body that takes more than one network read.
LargeBody == Len(req.upstream.body) > UpChunk

ContentStreamed == req.kind = "content" /\ req.pc = "done" /\ req.result.tag = "stream"

\* C9: for a 2xx content response with a large body, the proxy does not hold
\* the complete body before the first chunk has gone to the caller, and the
\* body goes out as more than one chunk.
C9_LazyStreaming ==
    (/\ req.kind = "content"
     /\ req.pc \in {"reading", "streaming", "done"}
     /\ IsSuccess(req.upstream.status)
     /\ LargeBody)
        => /\ req.sent = <<>> => Len(req.content) < Len(req.upstream.body)
           /\ ContentStreamed => Len(req.sent) > 1

RECURSIVE Flatten(_)
Flatten(chunks) == IF chunks = <<>> THEN <<>> ELSE Head(chunks) \o Flatten(Tail(chunks))

IsTextType(ctype) == ctype # NoContentType /\ ctype[1] = "text/"

C11_RoundTrip ==
    (GetImagesDone /\ req.outcome = "None" /\ IsSuccess(req.upstream.status))
        => \A v \in Payloads :
              req.upstream.body \in Renderings(v)
                 => req.result.tag = "json" /\ req.result.value = v

C11_Witness ==
    /\ GetImagesDone
    /\ req.upstream.status = 200
    /\ req.upstream.body =
          <<"{", "\"id\"", ":", " ", "1", ",", " ", "\"n\"", ":", " ", "\"img.png\"", "}">>
    /\ req.result.tag = "json"
    /\ req.result.value = <<"{", "\"id\"", ":", "1", ",", "\"n\"", ":", "\"img.png\"", "}">>

\* C12: a rejected configuration is reported: what the call returns and
\* prints differs from what an accepted configuration gives.
C12_RejectionIsReported == ops[2] = "update_invalid" => reported # Silent

\* An accepted configuration returns None and prints nothing.
AcceptedIsSilent == ops[2] = "update_valid" => reported = Silent

\* The upstream call failed before any response header arrived.
FailedBeforeHeaders == req.outcome \in TransportErrors /\ req.upstream.status = 0

\* The upstream connection failed after the headers of a 2xx response.
FailedMidBody ==
    req.outcome \in TransportErrors /\ IsSuccess(req.upstream.status)

IsStrictPrefix(s, b) == Len(s) < Len(b) /\ s = SubSeq(b, 1, Len(s))

\* C13: a content request that fails before the first body byte gives the
\* error payload and no content bytes; one that fails after the upstream
\* headers, in the middle of the body, gives a truncated byte stream and no
\* error payload.
C13_FailureBeforeAndAfterHeaders ==
    (req.kind = "content" /\ req.pc = "done")
        => /\ FailedBeforeHeaders => req.result.tag = "error" /\ req.sent = <<>>
           /\ FailedMidBody =>
                 /\ req.result.tag = "stream"
                 /\ IsStrictPrefix(Flatten(req.sent), req.upstream.body)

\* C14: server_running is not left True while no thread started by
\* start_server is alive, whatever the order in which start_server and the
\* thread it started take their steps.
C14_NoRunningFlagWithoutThread ==
    (ctl = "idle" /\ server_running) => Len(threads) > 0

\* C17: at most one serving loop of this process is bound and listening.
C17_OneServingLoop ==
    Cardinality({i \in 1..Len(threads) : Serving(i)}) <= 1

\* C15: a stop request cancels no request in flight: after stop_server has
\* been called during a request, the request's handler can still take its
\* next step towards the response.
C15_StopCancelsNothing ==
    (req.stop_called /\ InFlight) => ENABLED HandlerStep

\* A content request that stop_server interrupted has delivered the whole body.
C15_Witness ==
    /\ req.stop_called
    /\ ~server_running
    /\ ContentStreamed
    /\ Flatten(req.sent) = req.upstream.body
    /\ Len(req.upstream.body) = 3

\* C16: the JSON forwarder sends upstream exactly the header pairs it
\* received, in the same order, every occurrence of a repeated name included.
C16_HeadersForwardedVerbatim ==
    (req.kind = "get_images" /\ req.pc # "idle") => req.upstream_headers = req.headers

====
